---- MODULE Spec2Model ----
(***************************************************************************)
(* Checkout orchestration of loja-2: createCheckoutSession of              *)
(* src/server/stripe-api.ts together with the external systems it talks    *)
(* to (address and book tables, payment gateway, shipping rate engine,     *)
(* shipping ticket registrar, order table).                                *)
(***************************************************************************)
EXTENDS Integers, Sequences, FiniteSets, TLC

\* ------------------------------------------------------------------ bounds
\* Longest cart (inputProducts) an invocation is called with.
MaxCart == 2
\* Most calls of createProduct, archiveProduct and restoreProduct in a run.
MaxAdminCalls == 3
\* Most calls of getStripe in one page load.
MaxGetCalls == 3
\* Most getRows fetches the admin search page issues in a run.
MaxFetches == 3
\* Longest list of quotes the rate engine answers with.
MaxQuotes == 2

\* ------------------------------------------------- IEEE-754 double arithmetic
\* shipping.price is a JavaScript number.  A price is written here as the
\* decimal the rate service sent, in thousandths of a real (15.50 is 15500),
\* and the arithmetic of line 227 is done on the double nearest to it.
\* A natural number of any size is a sequence of limbs, least significant
\* first, each below LimbBase = 2^LimbBits.
MantissaBits == 53
LimbBits == 15
LimbBase == 2^LimbBits

RECURSIVE Limbs(_)
Limbs(n) == IF n = 0 THEN <<>> ELSE <<n % LimbBase>> \o Limbs(n \div LimbBase)

RECURSIVE LimbsVal(_)
LimbsVal(a) == IF a = <<>> THEN 0 ELSE a[1] + LimbBase * LimbsVal(Tail(a))

RECURSIVE Trim(_)
Trim(a) ==
    IF a # <<>> /\ a[Len(a)] = 0 THEN Trim(SubSeq(a, 1, Len(a) - 1)) ELSE a

\* Propagates carries through limbs that may exceed LimbBase.
RECURSIVE Carry(_, _)
Carry(a, c) ==
    IF a = <<>> THEN Limbs(c)
    ELSE <<(a[1] + c) % LimbBase>> \o Carry(Tail(a), (a[1] + c) \div LimbBase)

MulSmall(a, k) == Carry([i \in DOMAIN a |-> a[i] * k], 0)

\* <<a \div d, a % d>> for a small divisor d.
RECURSIVE DivSmall(_, _)
DivSmall(a, d) ==
    IF a = <<>> THEN <<(<<>>), 0>>
    ELSE LET hi  == DivSmall(Tail(a), d)
             cur == hi[2] * LimbBase + a[1]
         IN  <<(<<cur \div d>>) \o hi[1], cur % d>>

ShiftLeft(a, k) ==
    [i \in 1..(k \div LimbBits) |-> 0] \o MulSmall(a, 2^(k % LimbBits))

\* <<a \div 2^k, whether a % 2^k is not zero>>
ShiftRight(a, k) ==
    LET q    == k \div LimbBits
        low  == SubSeq(a, 1, IF q < Len(a) THEN q ELSE Len(a))
        high == SubSeq(a, q + 1, Len(a))
        dv   == DivSmall(high, 2^(k % LimbBits))
    IN  <<Trim(dv[1]), dv[2] # 0 \/ \E i \in DOMAIN low : low[i] # 0>>

RECURSIVE SmallBitLen(_)
SmallBitLen(n) == IF n = 0 THEN 0 ELSE 1 + SmallBitLen(n \div 2)

BitLen(a) ==
    LET t == Trim(a)
    IN  IF t = <<>> THEN 0 ELSE LimbBits * (Len(t) - 1) + SmallBitLen(t[Len(t)])

IsOdd(a) == a # <<>> /\ a[1] % 2 = 1

\* Round-to-nearest, ties-to-even, of the number n * 2^e followed by further
\* binary digits that are not all zero iff `sticky`.  A double is [m, e]:
\* the 53-bit mantissa m and the weight 2^e of its last bit.
RoundToDouble(n, e, sticky) ==
    LET len == BitLen(n)
    IN  IF len <= MantissaBits
        THEN [m |-> Trim(ShiftLeft(n, MantissaBits - len)),
              e |-> e - (MantissaBits - len)]
        ELSE LET k     == len - MantissaBits
                 x     == ShiftRight(n, k - 1)
                 guard == IsOdd(x[1])
                 m     == ShiftRight(x[1], 1)[1]
                 more  == sticky \/ x[2]
                 up    == guard /\ (more \/ IsOdd(m))
                 m2    == IF up THEN Trim(Carry(m, 1)) ELSE m
             IN  IF BitLen(m2) > MantissaBits
                 THEN [m |-> ShiftRight(m2, 1)[1], e |-> e + k + 1]
                 ELSE [m |-> m2, e |-> e + k]

\* The double nearest to milli/1000 (milli > 0): what a JavaScript number
\* holds for the decimal.  FracDigits binary digits after the point are
\* enough to have 53 significant ones and a guard digit for milli >= 1.
FracDigits == 66

ToDouble(milli) ==
    LET dv == DivSmall(ShiftLeft(Limbs(milli), FracDigits), 1000)
    IN  RoundToDouble(Trim(dv[1]), 0 - FracDigits, dv[2] # 0)

\* x * 100 in double arithmetic: the exact product, rounded.
MulDouble100(x) == RoundToDouble(Trim(MulSmall(x.m, 100)), x.e, FALSE)

\* Math.ceil of a positive double below 2^31.
MathCeil(x) ==
    IF x.e >= 0 THEN LimbsVal(ShiftLeft(x.m, x.e))
    ELSE LET s == ShiftRight(x.m, 0 - x.e)
         IN  LimbsVal(s[1]) + (IF s[2] THEN 1 ELSE 0)

\* Whether a positive double is a whole number.
DoubleIsInt(x) == x.e >= 0 \/ ~ShiftRight(x.m, 0 - x.e)[2]

\* ------------------------------------------------------- the world around
\* The invocations of createCheckoutSession that may run.
Procs == {1, 2}

\* The page loads in the browser; each evaluates the getStripe module once
\* and has its own stripePromise.
Loads == {1, 2}

\* The admin table SearchPage lists, and what the URL may ask of it.
RowTable ==
    << [id |-> "r1", matches |-> {"", "x"}],
       [id |-> "r2", matches |-> {""}],
       [id |-> "r3", matches |-> {"", "x"}] >>
SearchTerms == {"", "x"}
Pages == {1, 2}
Takes == {1, 2}
Queries == [search : SearchTerms, page : Pages, take : Takes]
\* The URL without parameters: no search term, the first page.
DefaultQuery == [search |-> "", page |-> 1, take |-> 2]

\* search-page.tsx lines 121-125: what getManyQuery is given.
GetManyInput(q) ==
    [take |-> q.take, skip |-> q.take * (q.page - 1), searchTerm |-> q.search]

\* getManyQuery: the matching rows after skip, at most take of them, and the
\* number of matching rows.
GetManyData(input) ==
    LET hits == SelectSeq(RowTable, LAMBDA r : input.searchTerm \in r.matches)
        last == IF input.skip + input.take < Len(hits)
                THEN input.skip + input.take ELSE Len(hits)
    IN  [rows |-> SubSeq(hits, input.skip + 1, last), total |-> Len(hits)]

\* auth(): the signed-in user's id, "" when nobody is signed in.
AuthIds == {"", "u1", "u2"}

\* db.address: one row per user that stored an address (u2 stored none).
AddressTable ==
    { [userId |-> "u1", cep |-> "01310-100", street |-> "Av. Paulista",
       number |-> 1000, complement |-> "", neighborhood |-> "Bela Vista",
       city |-> "Sao Paulo", state |-> "SP"] }

\* The user profiles cClient.users.getUser answers with.
UserTable ==
    { [id |-> "u1", firstName |-> "Ana", lastName |-> "Lima",
       primaryEmailAddress |-> "ana@example.com"],
      [id |-> "u2", firstName |-> "Rui", lastName |-> "Melo",
       primaryEmailAddress |-> "rui@example.com"] }

\* db.book, with prices in cents.  No book has stripeId prod_X.
BookTable ==
    { [id |-> "book_A", title |-> "Book A", price |-> 2990, stripeId |-> "prod_A",
       weightGrams |-> 500, widthCm |-> 10, heightCm |-> 10, thicknessCm |-> 2],
      [id |-> "book_B", title |-> "Book B", price |-> 4550, stripeId |-> "prod_B",
       weightGrams |-> 300, widthCm |-> 14, heightCm |-> 21, thicknessCm |-> 3] }

StripeIds == {"prod_A", "prod_B", "prod_X"}
Quantities == {1, 2}

\* What a caller may pass as inputProducts.
CartLines == [stripeId : StripeIds, quantity : Quantities]
Carts == UNION { [1..n -> CartLines] : n \in 0..MaxCart }

\* The products the gateway holds, oldest first, as createProduct makes them:
\* each with a default price.  unit_amount is what that price charges.
GatewayProductA ==
    [id |-> "prod_A", default_price |-> "price_A", unit_amount |-> 3100, active |-> TRUE]
GatewayProductB ==
    [id |-> "prod_B", default_price |-> "price_B", unit_amount |-> 4550, active |-> TRUE]
GatewayStates == { <<GatewayProductA, GatewayProductB>>, <<GatewayProductA>> }

\* The quotes the rate engine may answer with; price in thousandths.
QuoteTable ==
    { [id |-> 1, name |-> "PAC", price |-> 15500,
       delivery_range |-> [min |-> 3, max |-> 5],
       packages |-> << [dimensions |-> [height |-> 2, width |-> 10, length |-> 10],
                        weight |-> 500] >>],
      [id |-> 2, name |-> "SEDEX", price |-> 10001,
       delivery_range |-> [min |-> 1, max |-> 3],
       packages |-> << [dimensions |-> [height |-> 3, width |-> 14, length |-> 21],
                        weight |-> 800] >>],
      [id |-> 3, name |-> "Jadlog", price |-> 16100,
       delivery_range |-> [min |-> 2, max |-> 3],
       packages |-> << [dimensions |-> [height |-> 4, width |-> 15, length |-> 22],
                        weight |-> 900] >>] }
QuoteLists == UNION { [1..n -> QuoteTable] : n \in 0..MaxQuotes }

\* ---------------------------------------------------- pure parts of the flow
\* booksMap: stripeId -> book, from the rows db.book.findMany returned.
BooksMap(rows) ==
    [sid \in {b.stripeId : b \in rows} |-> CHOOSE b \in rows : b.stripeId = sid]

\* The request taken whole, unknown products included.
FilterProductsNone(inputProducts, booksMap) == inputProducts

\* inputProducts.filter((p) => booksMap.get(p.stripeId))
FilterProducts(inputProducts, booksMap) ==
    SelectSeq(inputProducts, LAMBDA p : p.stripeId \in DOMAIN booksMap)

\* A map whose set() adds to the quantity already there.
MapSetSums(map, k, v) ==
    [keys |-> IF k \in DOMAIN map.val THEN map.keys ELSE Append(map.keys, k),
     val  |-> [x \in DOMAIN map.val \cup {k} |->
                 IF x = k THEN (IF k \in DOMAIN map.val THEN map.val[k] + v ELSE v)
                 ELSE map.val[x]]]

\* A JavaScript Map<string, number> is [keys, val]: its keys in insertion
\* order and the value of each.  set() of a present key keeps its place.
MapSet(map, k, v) ==
    [keys |-> IF k \in DOMAIN map.val THEN map.keys ELSE Append(map.keys, k),
     val  |-> [x \in DOMAIN map.val \cup {k} |-> IF x = k THEN v ELSE map.val[x]]]

EmptyMap == [keys |-> <<>>, val |-> <<>>]

\* productQuantityMap after the forEach over products.
RECURSIVE ProductQuantityMap(_)
ProductQuantityMap(products) ==
    IF products = <<>> THEN EmptyMap
    ELSE LET n == Len(products)
         IN  MapSet(ProductQuantityMap(SubSeq(products, 1, n - 1)),
                    products[n].stripeId, products[n].quantity)

\* A gateway that lists its products whatever ids are asked for.
GatewayListAll(gatewayProducts, ids, limit) ==
    SubSeq(gatewayProducts, 1,
           IF limit < Len(gatewayProducts) THEN limit ELSE Len(gatewayProducts))

\* stripe.products.list({ids, limit}): the gateway's products whose id is
\* asked for, cut to the first `limit`.
GatewayList(gatewayProducts, ids, limit) ==
    LET hits == SelectSeq(gatewayProducts,
                          LAMBDA sp : \E i \in DOMAIN ids : ids[i] = sp.id)
    IN  SubSeq(hits, 1, IF limit < Len(hits) THEN limit ELSE Len(hits))

\* A line item that names the product where its price is expected.
LineItemProductId(sp, quantityMap) ==
    IF sp.id \in DOMAIN quantityMap.val
    THEN [price |-> sp.id, quantity |-> quantityMap.val[sp.id]]
    ELSE [price |-> sp.id]

\* { price: sp.default_price?.toString() ?? "", quantity: productQuantityMap.get(sp.id) }
\* An undefined quantity is a line item without that field.
LineItem(sp, quantityMap) ==
    LET price == IF "default_price" \in DOMAIN sp THEN sp.default_price ELSE ""
    IN  IF sp.id \in DOMAIN quantityMap.val
        THEN [price |-> price, quantity |-> quantityMap.val[sp.id]]
        ELSE [price |-> price]

LineItems(data, quantityMap) ==
    [i \in DOMAIN data |-> LineItem(data[i], quantityMap)]

\* An unstable sort: an element going before those that equal it.
InsertQuoteBeforeEqual(sorted, q) ==
    LET before == SelectSeq(sorted, LAMBDA x : x.delivery_range.max < q.delivery_range.max)
        after  == SelectSeq(sorted, LAMBDA x : x.delivery_range.max >= q.delivery_range.max)
    IN  before \o <<q>> \o after

\* arr.sort((a, b) => a.delivery_range.max - b.delivery_range.max): a stable
\* sort, an element going after those already placed that do not exceed it.
InsertQuote(sorted, q) ==
    LET before == SelectSeq(sorted, LAMBDA x : x.delivery_range.max <= q.delivery_range.max)
        after  == SelectSeq(sorted, LAMBDA x : x.delivery_range.max > q.delivery_range.max)
    IN  before \o <<q>> \o after

RECURSIVE SortByMax(_)
SortByMax(arr) ==
    IF arr = <<>> THEN <<>>
    ELSE InsertQuote(SortByMax(SubSeq(arr, 1, Len(arr) - 1)), arr[Len(arr)])

\* A default quote standing in when the engine offers none.
ChooseShippingOrDefault(arr) ==
    IF Len(arr) = 0
    THEN <<CHOOSE q \in QuoteTable : \A x \in QuoteTable : q.id <= x.id>>
    ELSE <<SortByMax(arr)[1]>>

\* The quote kept by the .then() of calcShippingFee, as a list of at most
\* one quote: <<>> is undefined.
ChooseShipping(arr) ==
    IF Len(arr) = 0 THEN <<>> ELSE <<SortByMax(arr)[1]>>

\* Math.ceil(shipping.price * 100)
FixedAmount(priceMilli) == MathCeil(MulDouble100(ToDouble(priceMilli)))

\* The one entry of shipping_options that sessions.create is given.
ShippingOption(q) ==
    [type |-> "fixed_amount",
     metadata |-> [serviceId |-> q.id],
     display_name |-> q.name,
     delivery_estimate |-> [minimum |-> q.delivery_range.min,
                            maximum |-> q.delivery_range.max],
     fixed_amount |-> [amount |-> FixedAmount(q.price), currency |-> "brl"]]

\* productsForOrderShipping: one entry per product kept by the filter.
OrderShippingProduct(product, booksMap) ==
    IF product.stripeId \in DOMAIN booksMap
    THEN [bookDBId |-> booksMap[product.stripeId].id,
          name |-> booksMap[product.stripeId].title,
          quantity |-> product.quantity,
          unitary_value |-> booksMap[product.stripeId].price]
    ELSE [bookDBId |-> "N/A", name |-> "N/A",
          quantity |-> product.quantity, unitary_value |-> 0]

ProductsForOrderShipping(products, booksMap) ==
    [i \in DOMAIN products |-> OrderShippingProduct(products[i], booksMap)]

\* The shipping columns with the two ends of the delivery range exchanged.
OrderShippingSwapped(q) ==
    [shippingPrice |-> q.price,
     shippingServiceId |-> ToString(q.id),
     shippingServiceName |-> q.name,
     shippingDaysMin |-> q.delivery_range.max,
     shippingDaysMax |-> q.delivery_range.min]

\* The shipping columns of the order row, from the chosen quote.
OrderShipping(q) ==
    [shippingPrice |-> q.price,
     shippingServiceId |-> ToString(q.id),
     shippingServiceName |-> q.name,
     shippingDaysMin |-> q.delivery_range.min,
     shippingDaysMax |-> q.delivery_range.max]

\* The order written right after the session, no ticket being booked.
SuccessorNoTicket(step) ==
    CASE step = "auth"    -> "address"
      [] step = "address" -> "books"
      [] step = "books"   -> "list"
      [] step = "list"    -> "rate"
      [] step = "rate"    -> "session"
      [] step = "session" -> "order"
      [] step = "user"    -> "ticket"
      [] step = "ticket"  -> "order"
      [] step = "order"   -> "done"

\* The statement that follows each awaited step of createCheckoutSession.
Successor(step) ==
    CASE step = "auth"    -> "address"
      [] step = "address" -> "books"
      [] step = "books"   -> "list"
      [] step = "list"    -> "rate"
      [] step = "rate"    -> "session"
      [] step = "session" -> "user"
      [] step = "user"    -> "ticket"
      [] step = "ticket"  -> "order"
      [] step = "order"   -> "done"

\* ------------------------------------------------------------------- state
VARIABLES
    gatewayProducts,  \* the gateway's products, oldest first
    sessions,         \* the checkout sessions the gateway created
    tickets,          \* the shipping tickets the registrar booked
    orders,           \* db.order
    pc,               \* per invocation: the step it is about to take
    userId,           \* per invocation: auth().userId
    inputProducts,    \* per invocation: the argument
    books,            \* per invocation: rows of db.book.findMany
    stripeData,       \* per invocation: stripeProducts.value.data
    arr,              \* per invocation: the quotes as calcShippingFee gave them
    shipping,         \* per invocation: the chosen quote, <<>> or <<q>>
    session,          \* per invocation: checkoutSession.value, <<>> or <<s>>
    ticketId,         \* per invocation: <<>> or <<id>>
    result,           \* per invocation: pending, returned value or thrown error
    calls,            \* per invocation: the external calls made, with outcome
    listReq,          \* per invocation: arguments of stripe.products.list
    rateReq,          \* per invocation: arguments of calcShippingFee
    adminLog,         \* createProduct/archiveProduct/restoreProduct calls, how the
                      \* gateway settled each and what the function gave back
    stripePromise,    \* per page load: the module variable, <<>> or <<promise>>
    promises,         \* per page load: the promises loadStripe made, each with
                      \* its state
    getReturns,       \* per page load: what each getStripe call returned and
                      \* the state of that promise at the time
    query,            \* SearchPage: search, page and take of the URL
    fetches,          \* SearchPage: the getManyQuery calls not yet answered
    responses,        \* SearchPage: the answers so far, in order of arrival
    rows,             \* SearchPage: useState rows
    total,            \* SearchPage: useState total
    getRowsDone,      \* SearchPage: useState getRowsDone
    showErrorIndicator \* SearchPage: useState showErrorIndicator

client == <<stripePromise, promises, getReturns>>
page == <<query, fetches, responses, rows, total, getRowsDone, showErrorIndicator>>
world == <<gatewayProducts, sessions, tickets, orders, adminLog, client, page>>
locals == <<userId, inputProducts, books, stripeData, arr, shipping, session,
            ticketId, listReq, rateReq>>
vars == <<world, locals, pc, result, calls>>

Pending == [kind |-> "pending"]
Failure(message) == [kind |-> "return", success |-> FALSE, message |-> message]
Success(url) ==
    [kind |-> "return", success |-> TRUE,
     message |-> "Checkout session created successfully", url |-> url]
Thrown(error) == [kind |-> "throw", error |-> error]

\* SearchPage is mounted at one of the URLs qs and its effect has called
\* getRows once.
InitPage(qs) ==
    /\ query \in qs
    /\ fetches = {[seq |-> 1, input |-> GetManyInput(query)]}
    /\ responses = <<>>
    /\ rows = <<>>
    /\ total = 0
    /\ getRowsDone = FALSE
    /\ showErrorIndicator = FALSE

\* Nothing has been created yet and no invocation has taken a step.
InitBase ==
    /\ gatewayProducts \in GatewayStates
    /\ sessions = {}
    /\ tickets = {}
    /\ orders = {}
    /\ adminLog = <<>>
    /\ stripePromise = [r \in Loads |-> <<>>]
    /\ promises = [r \in Loads |-> <<>>]
    /\ getReturns = [r \in Loads |-> <<>>]
    /\ userId = [p \in Procs |-> ""]
    /\ inputProducts = [p \in Procs |-> <<>>]
    /\ books = [p \in Procs |-> {}]
    /\ stripeData = [p \in Procs |-> <<>>]
    /\ arr = [p \in Procs |-> <<>>]
    /\ shipping = [p \in Procs |-> <<>>]
    /\ session = [p \in Procs |-> <<>>]
    /\ ticketId = [p \in Procs |-> <<>>]
    /\ result = [p \in Procs |-> Pending]
    /\ calls = [p \in Procs |-> <<>>]
    /\ listReq = [p \in Procs |-> <<>>]
    /\ rateReq = [p \in Procs |-> <<>>]

\* The same, with the admin page at the plain URL.
InitRest ==
    /\ InitPage({DefaultQuery})
    /\ InitBase

\* Invocation 1 is about to be called; invocation 2 is not started.
Init ==
    /\ pc = [p \in Procs |-> IF p = 1 THEN "idle" ELSE "off"]
    /\ InitRest

\* Both invocations are about to be called.
InitPair ==
    /\ pc = [p \in Procs |-> "idle"]
    /\ InitRest

\* When both invocations run, their inputs and the engine's answers are
\* drawn from the small sets below: the same user, two carts, and an engine
\* that offers one quote or none.
Alone == \E p \in Procs : pc[p] = "off"
PairCarts ==
    { << [stripeId |-> "prod_A", quantity |-> 2] >>,
      << [stripeId |-> "prod_B", quantity |-> 1], [stripeId |-> "prod_X", quantity |-> 1] >> }
PairQuoteLists == { <<>>, <<CHOOSE q \in QuoteTable : q.id = 2>> }
InputUsers == IF Alone THEN AuthIds ELSE {"u1"}
InputCarts == IF Alone THEN Carts ELSE PairCarts
InputQuoteLists == IF Alone THEN QuoteLists ELSE PairQuoteLists

\* What the invocation has in hand, as the code computes it.
booksMapOf(p) == BooksMap(books[p])
productsOf(p) == FilterProducts(inputProducts[p], booksMapOf(p))
productQuantityMapOf(p) == ProductQuantityMap(productsOf(p))
lineItemsOf(p) == LineItems(stripeData[p], productQuantityMapOf(p))
userAddressOf(p) == {a \in AddressTable : a.userId = userId[p]}

\* The invocation ends: a return statement or an uncaught throw.
Finish(p, r) ==
    /\ result' = [result EXCEPT ![p] = r]
    /\ pc' = [pc EXCEPT ![p] = "done"]

Goto(p, step) ==
    /\ pc' = [pc EXCEPT ![p] = step]
    /\ UNCHANGED result

Called(p, name, ok) ==
    calls' = [calls EXCEPT ![p] = Append(@, [name |-> name, ok |-> ok])]

\* ----------------------------------------------------------------- actions
\* Lines 92-100: the call, auth() and the check of user.userId.
\* A lock around the function: a call waits while another one is in flight.
InvokeExclusive(p) ==
    /\ pc[p] = "idle"
    /\ \A q \in Procs \ {p} : pc[q] \in {"off", "idle", "done"}
    /\ \E u \in InputUsers, cart \in InputCarts :
        /\ userId' = [userId EXCEPT ![p] = u]
        /\ inputProducts' = [inputProducts EXCEPT ![p] = cart]
        /\ IF u = ""
           THEN Finish(p, Failure("User is not authorized."))
           ELSE Goto(p, Successor("auth"))
    /\ UNCHANGED <<world, books, stripeData, arr, shipping, session, ticketId,
                   listReq, rateReq, calls>>

\* The function without its check of the caller's identity.
InvokeNoAuthCheck(p) ==
    /\ pc[p] = "idle"
    /\ \E u \in InputUsers, cart \in InputCarts :
        /\ userId' = [userId EXCEPT ![p] = u]
        /\ inputProducts' = [inputProducts EXCEPT ![p] = cart]
        /\ Goto(p, Successor("auth"))
    /\ UNCHANGED <<world, books, stripeData, arr, shipping, session, ticketId,
                   listReq, rateReq, calls>>

\* Lines 92-100: the call and the check of the caller's identity.
Invoke(p) ==
    /\ pc[p] = "idle"
    /\ \E u \in InputUsers, cart \in InputCarts :
        /\ userId' = [userId EXCEPT ![p] = u]
        /\ inputProducts' = [inputProducts EXCEPT ![p] = cart]
        /\ IF u = ""
           THEN Finish(p, Failure("User is not authorized."))
           ELSE Goto(p, Successor("auth"))
    /\ UNCHANGED <<world, books, stripeData, arr, shipping, session, ticketId,
                   listReq, rateReq, calls>>

\* Lines 102-106: db.address.findUnique rejects; nothing catches it.
AddressRejected(p) ==
    /\ Called(p, "db.address.findUnique", FALSE)
    /\ Finish(p, Thrown("db.address.findUnique"))

\* The lookup without the return on null.
AddressFoundNoCheck(p) ==
    /\ Called(p, "db.address.findUnique", TRUE)
    /\ Goto(p, Successor("address"))

\* Lines 102-113: the row or null, and the return on null.
AddressFound(p) ==
    /\ Called(p, "db.address.findUnique", TRUE)
    /\ IF userAddressOf(p) = {}
       THEN Finish(p, Failure("User has no address."))
       ELSE Goto(p, Successor("address"))

FindAddress(p) ==
    /\ pc[p] = "address"
    /\ (AddressRejected(p) \/ AddressFound(p))
    /\ UNCHANGED <<world, locals>>

\* Lines 115-131: db.book.findMany rejects; nothing catches it.
BooksRejected(p) ==
    /\ Called(p, "db.book.findMany", FALSE)
    /\ Finish(p, Thrown("db.book.findMany"))
    /\ UNCHANGED books

\* Lines 115-131: the books whose stripeId is in the request.
BooksFound(p) ==
    /\ Called(p, "db.book.findMany", TRUE)
    /\ books' = [books EXCEPT ![p] =
            {b \in BookTable :
                \E i \in DOMAIN inputProducts[p] : inputProducts[p][i].stripeId = b.stripeId}]
    /\ Goto(p, Successor("books"))

FindBooks(p) ==
    /\ pc[p] = "books"
    /\ (BooksRejected(p) \/ BooksFound(p))
    /\ UNCHANGED <<world, userId, inputProducts, stripeData, arr, shipping, session,
                   ticketId, listReq, rateReq>>

\* The arguments of stripe.products.list, lines 159-162.
\* The list call asking for one product only.
ListRequestLimitOne(p) ==
    [ids |-> productQuantityMapOf(p).keys, limit |-> 1]

ListRequest(p) ==
    [ids |-> productQuantityMapOf(p).keys, limit |-> Len(productsOf(p))]

\* The rejected list call tried again.
ListRejectedRetries(p) ==
    /\ Called(p, "stripe.products.list", FALSE)
    /\ Goto(p, "list")
    /\ UNCHANGED stripeData

\* The rejected list call without its return: the flow goes on.
ListRejectedGoesOn(p) ==
    /\ Called(p, "stripe.products.list", FALSE)
    /\ Goto(p, Successor("list"))
    /\ UNCHANGED stripeData

\* Lines 165-170: the list call was rejected.
ListRejected(p) ==
    /\ Called(p, "stripe.products.list", FALSE)
    /\ Finish(p, Failure("Failed to fetch products"))
    /\ UNCHANGED stripeData

\* Lines 158-163: the list call was fulfilled.
ListFulfilled(p) ==
    /\ Called(p, "stripe.products.list", TRUE)
    /\ stripeData' = [stripeData EXCEPT ![p] =
            GatewayList(gatewayProducts, ListRequest(p).ids, ListRequest(p).limit)]
    /\ Goto(p, Successor("list"))

ListProducts(p) ==
    /\ pc[p] = "list"
    /\ listReq' = [listReq EXCEPT ![p] = Append(@, ListRequest(p))]
    /\ (ListRejected(p) \/ ListFulfilled(p))
    /\ UNCHANGED <<world, userId, inputProducts, books, arr, shipping, session,
                   ticketId, rateReq>>

\* Lines 177-185: the argument of calcShippingFee.  The entries are built
\* with non-null assertions on both maps.
RateDerefs(p) ==
    \A i \in DOMAIN stripeData[p] :
        /\ stripeData[p][i].id \in DOMAIN booksMapOf(p)
        /\ stripeData[p][i].id \in DOMAIN productQuantityMapOf(p).val

RateRequest(p) ==
    [toPostalCode |-> (CHOOSE a \in userAddressOf(p) : TRUE).cep,
     products |->
        [i \in DOMAIN stripeData[p] |->
            LET sp == stripeData[p][i]
                bk == booksMapOf(p)[sp.id]
            IN  [quantity |-> productQuantityMapOf(p).val[sp.id],
                 height |-> bk.heightCm,
                 width |-> bk.widthCm,
                 length |-> bk.thicknessCm,
                 weightGrams |-> bk.weightGrams]]]

\* Lines 196-198: no quote was kept.
NoShipping(p) == Finish(p, Thrown("Not able to fetch shipping prices."))

\* Lines 177-198: the rate request, the choice of a quote and the throw.
CalcShipping(p) ==
    /\ pc[p] = "rate"
    /\ IF ~RateDerefs(p)
       THEN /\ Finish(p, Thrown("TypeError"))
            /\ UNCHANGED <<arr, shipping, rateReq, calls>>
       ELSE \E quotes \in InputQuoteLists :
            /\ rateReq' = [rateReq EXCEPT ![p] = Append(@, RateRequest(p))]
            /\ Called(p, "calcShippingFee", TRUE)
            /\ arr' = [arr EXCEPT ![p] = quotes]
            /\ shipping' = [shipping EXCEPT ![p] = ChooseShipping(quotes)]
            /\ IF ChooseShipping(quotes) = <<>>
               THEN NoShipping(p)
               ELSE Goto(p, Successor("rate"))
    /\ UNCHANGED <<world, userId, inputProducts, books, stripeData, session,
                   ticketId, listReq>>

\* Lines 201-233: the argument of stripe.checkout.sessions.create.
\* Every quote of the answer offered to the shopper as an option.
SessionRequestAllQuotes(p) ==
    [mode |-> "payment",
     currency |-> "brl",
     line_items |-> lineItemsOf(p),
     shipping_options |-> [i \in DOMAIN arr[p] |-> ShippingOption(arr[p][i])]]

SessionRequest(p) ==
    [mode |-> "payment",
     currency |-> "brl",
     line_items |-> lineItemsOf(p),
     shipping_options |-> <<ShippingOption(shipping[p][1])>>]

\* What the gateway charges for a session: its line items at the unit
\* amount of their price, plus the shipping option.
RECURSIVE SumSeq(_)
SumSeq(ns) == IF ns = <<>> THEN 0 ELSE ns[1] + SumSeq(Tail(ns))

LineAmount(gw, li) ==
    LET hit == SelectSeq(gw, LAMBDA sp : sp.default_price = li.price)
    IN  IF hit = <<>> \/ "quantity" \notin DOMAIN li THEN 0
        ELSE hit[1].unit_amount * li.quantity

AmountTotal(gw, req) ==
    SumSeq([i \in DOMAIN req.line_items |-> LineAmount(gw, req.line_items[i])])
      + SumSeq([i \in DOMAIN req.shipping_options |->
                    req.shipping_options[i].fixed_amount.amount])

\* A gateway that answers a repeated request with the session it made before.
NewSessionReused(p, req) ==
    LET same == {s \in sessions : /\ s.line_items = req.line_items
                                  /\ s.shipping_options = req.shipping_options}
    IN  IF same # {} THEN CHOOSE s \in same : TRUE
        ELSE [id |-> Cardinality(sessions) + 1,
              url |-> <<"checkout.stripe.com", Cardinality(sessions) + 1>>,
              amount_total |-> AmountTotal(gatewayProducts, req),
              line_items |-> req.line_items,
              shipping_options |-> req.shipping_options,
              invocation |-> p]

\* The session the gateway creates for a request.
NewSession(p, req) ==
    [id |-> Cardinality(sessions) + 1,
     url |-> <<"checkout.stripe.com", Cardinality(sessions) + 1>>,
     amount_total |-> AmountTotal(gatewayProducts, req),
     line_items |-> req.line_items,
     shipping_options |-> req.shipping_options,
     invocation |-> p]

\* The rejected sessions.create without its return: the flow goes on.
SessionRejectedGoesOn(p) ==
    /\ Called(p, "stripe.checkout.sessions.create", FALSE)
    /\ Goto(p, Successor("session"))
    /\ UNCHANGED <<sessions, session>>

\* Lines 236-241: sessions.create was rejected.
SessionRejected(p) ==
    /\ Called(p, "stripe.checkout.sessions.create", FALSE)
    /\ Finish(p, Failure("Failed to create checkout session"))
    /\ UNCHANGED <<sessions, session>>

\* Lines 200-243: sessions.create was fulfilled.
SessionFulfilled(p) ==
    /\ Called(p, "stripe.checkout.sessions.create", TRUE)
    /\ LET s == NewSession(p, SessionRequest(p))
       IN  /\ sessions' = sessions \cup {s}
           /\ session' = [session EXCEPT ![p] = <<s>>]
    /\ Goto(p, Successor("session"))

CreateSession(p) ==
    /\ pc[p] = "session"
    /\ IF shipping[p] = <<>>
       THEN /\ Finish(p, Thrown("TypeError"))
            /\ UNCHANGED <<sessions, session, calls>>
       ELSE SessionRejected(p) \/ SessionFulfilled(p)
    /\ UNCHANGED <<gatewayProducts, tickets, orders, adminLog, client, page, userId, inputProducts,
                   books, stripeData, arr, shipping, ticketId, listReq, rateReq>>

\* Line 252: users.getUser rejects; nothing catches it.
UserRejected(p) ==
    /\ Called(p, "users.getUser", FALSE)
    /\ Finish(p, Thrown("users.getUser"))

\* Line 252: the profile of the signed-in user.
UserFound(p) ==
    /\ Called(p, "users.getUser", TRUE)
    /\ Goto(p, Successor("user"))

GetUser(p) ==
    /\ pc[p] = "user"
    /\ (UserRejected(p) \/ UserFound(p))
    /\ UNCHANGED <<world, locals>>

userDataOf(p) == CHOOSE u \in UserTable : u.id = userId[p]

\* Lines 254-268: the argument of createShippingTicket.
\* JSON.stringify of an object: its keys in order, each with its value.
JsonStringify(keys, obj) == [i \in DOMAIN keys |-> <<keys[i], obj[keys[i]]>>]

\* A ticket tagged with the newest session at the gateway, whoever made it.
TicketRequestTagsNewest(p) ==
    LET a == CHOOSE x \in userAddressOf(p) : TRUE
        q == shipping[p][1]
    IN  [to |-> [name |-> <<userDataOf(p).firstName, userDataOf(p).lastName>>,
                 address |-> <<a.street, a.number, a.complement>>,
                 district |-> a.neighborhood,
                 city |-> a.city,
                 state_abbr |-> a.state,
                 postal_code |-> a.cep,
                 email |-> userDataOf(p).primaryEmailAddress],
         service |-> q.id,
         products |-> ProductsForOrderShipping(productsOf(p), booksMapOf(p)),
         volumes |-> [height |-> q.packages[1].dimensions.height,
                      width |-> q.packages[1].dimensions.width,
                      length |-> q.packages[1].dimensions.length,
                      weight |-> q.packages[1].weight],
         tag |-> JsonStringify(<<"sessionId", "userId">>,
                               [sessionId |-> Cardinality(sessions), userId |-> userId[p]])]

\* A ticket booked with the first quote of the answer, chosen or not.
TicketRequestFirstQuote(p) ==
    LET a == CHOOSE x \in userAddressOf(p) : TRUE
        q == arr[p][1]
    IN  [to |-> [name |-> <<userDataOf(p).firstName, userDataOf(p).lastName>>,
                 address |-> <<a.street, a.number, a.complement>>,
                 district |-> a.neighborhood,
                 city |-> a.city,
                 state_abbr |-> a.state,
                 postal_code |-> a.cep,
                 email |-> userDataOf(p).primaryEmailAddress],
         service |-> q.id,
         products |-> ProductsForOrderShipping(productsOf(p), booksMapOf(p)),
         volumes |-> [height |-> q.packages[1].dimensions.height,
                      width |-> q.packages[1].dimensions.width,
                      length |-> q.packages[1].dimensions.length,
                      weight |-> q.packages[1].weight],
         tag |-> JsonStringify(<<"sessionId", "userId">>,
                               [sessionId |-> session[p][1].id, userId |-> userId[p]])]

TicketRequest(p) ==
    LET a == CHOOSE x \in userAddressOf(p) : TRUE
        q == shipping[p][1]
    IN  [to |-> [name |-> <<userDataOf(p).firstName, userDataOf(p).lastName>>,
                 address |-> <<a.street, a.number, a.complement>>,
                 district |-> a.neighborhood,
                 city |-> a.city,
                 state_abbr |-> a.state,
                 postal_code |-> a.cep,
                 email |-> userDataOf(p).primaryEmailAddress],
         service |-> q.id,
         products |-> ProductsForOrderShipping(productsOf(p), booksMapOf(p)),
         volumes |-> [height |-> q.packages[1].dimensions.height,
                      width |-> q.packages[1].dimensions.width,
                      length |-> q.packages[1].dimensions.length,
                      weight |-> q.packages[1].weight],
         tag |-> JsonStringify(<<"sessionId", "userId">>,
                               [sessionId |-> session[p][1].id, userId |-> userId[p]])]

\* The registrar books the shipment it is asked for and names the ticket.
BookTicket(id, req) ==
    [id |-> id, to |-> req.to, service |-> req.service, products |-> req.products,
     volumes |-> req.volumes, tag |-> req.tag]

\* The rejection caught and the session taken back at the gateway.
TicketRejectedRollsBack(p) ==
    /\ Called(p, "createShippingTicket", FALSE)
    /\ Finish(p, Failure("Failed to create shipping ticket"))
    /\ sessions' = sessions \ {session[p][1]}
    /\ UNCHANGED <<tickets, ticketId>>

\* Line 254: createShippingTicket rejects; nothing catches it, and nothing
\* is done about the session.
TicketRejected(p) ==
    /\ Called(p, "createShippingTicket", FALSE)
    /\ Finish(p, Thrown("createShippingTicket"))
    /\ UNCHANGED <<sessions, tickets, ticketId>>

\* Lines 254-268: the ticket is booked and its id kept.
TicketBooked(p) ==
    /\ Called(p, "createShippingTicket", TRUE)
    /\ tickets' = tickets \cup
            {[invocation |-> p,
              ticket |-> BookTicket(Cardinality(tickets) + 1, TicketRequest(p))]}
    /\ ticketId' = [ticketId EXCEPT ![p] = <<Cardinality(tickets) + 1>>]
    /\ Goto(p, Successor("ticket"))
    /\ UNCHANGED sessions

CreateTicket(p) ==
    /\ pc[p] = "ticket"
    /\ IF shipping[p] = <<>> \/ session[p] = <<>> \/ shipping[p][1].packages = <<>>
       THEN /\ Finish(p, Thrown("TypeError"))
            /\ UNCHANGED <<sessions, tickets, ticketId, calls>>
       ELSE TicketRejected(p) \/ TicketBooked(p)
    /\ UNCHANGED <<gatewayProducts, orders, adminLog, client, page, userId, inputProducts, books,
                   stripeData, arr, shipping, session, listReq, rateReq>>

\* Lines 270-290: the row db.order.create is given, with its BookOnOrder rows.
OrderData(p) ==
    [userId |-> userId[p],
     sessionId |-> session[p][1].id,
     ticketId |-> ticketId[p],
     totalCents |-> session[p][1].amount_total,
     shipping |-> OrderShipping(shipping[p][1]),
     BookOnOrder |->
        LET ps == ProductsForOrderShipping(productsOf(p), booksMapOf(p))
        IN  [i \in DOMAIN ps |-> [bookId |-> ps[i].bookDBId, price |-> ps[i].unitary_value]]]

\* The rejected write swallowed: success is returned all the same.
OrderRejectedSwallowed(p) ==
    /\ Called(p, "db.order.create", FALSE)
    /\ Finish(p, Success(session[p][1].url))
    /\ UNCHANGED orders

\* Line 270: db.order.create rejects; nothing catches it.
OrderRejected(p) ==
    /\ Called(p, "db.order.create", FALSE)
    /\ Finish(p, Thrown("db.order.create"))
    /\ UNCHANGED orders

\* Lines 270-297: the order is written and the session's url returned.
OrderCreated(p) ==
    /\ Called(p, "db.order.create", TRUE)
    /\ orders' = orders \cup
            {[invocation |-> p, id |-> Cardinality(orders) + 1, data |-> OrderData(p)]}
    /\ Finish(p, Success(session[p][1].url))

CreateOrder(p) ==
    /\ pc[p] = "order"
    /\ IF shipping[p] = <<>> \/ session[p] = <<>>
       THEN /\ Finish(p, Thrown("TypeError"))
            /\ UNCHANGED <<orders, calls>>
       ELSE OrderRejected(p) \/ OrderCreated(p)
    /\ UNCHANGED <<gatewayProducts, sessions, tickets, adminLog, client, page, locals>>

Next ==
    \E p \in Procs :
        \/ Invoke(p)
        \/ FindAddress(p)
        \/ FindBooks(p)
        \/ ListProducts(p)
        \/ CalcShipping(p)
        \/ CreateSession(p)
        \/ GetUser(p)
        \/ CreateTicket(p)
        \/ CreateOrder(p)

Spec == Init /\ [][Next]_vars

\* ------------------------------------------- the gateway client functions
\* What an admin may pass as productData; price in thousandths.
ProductInputs ==
    { [name |-> "Book C", price |-> 19990, mainImg |-> "c.png"],
      [name |-> "Book D", price |-> 45500, mainImg |-> "d.png"] }

\* Lines 26-34: what stripe.products.create is given.
CreateProductRequest(productData) ==
    [name |-> productData.name,
     images |-> <<productData.mainImg>>,
     default_price_data |->
        [currency |-> "brl",
         unit_amount |-> MulDouble100(ToDouble(productData.price))],
     shippable |-> TRUE]

\* The product the gateway makes of a request it accepts, with its price.
NewProduct(products, req) ==
    [id |-> "prod_" \o ToString(Len(products) + 1),
     default_price |-> "price_" \o ToString(Len(products) + 1),
     unit_amount |-> MathCeil(req.default_price_data.unit_amount),
     active |-> TRUE]

\* stripe.products.update(stripeId, {active}) on the gateway's products.
UpdateActive(products, stripeId, active) ==
    [i \in DOMAIN products |->
        IF products[i].id = stripeId
        THEN [products[i] EXCEPT !.active = active]
        ELSE products[i]]

\* The ids an admin may pass: those of the gateway's products and a stale one.
AdminIds == {gatewayProducts[i].id : i \in DOMAIN gatewayProducts} \cup {"prod_X"}

Returns(value) == [kind |-> "return", value |-> value]

Logged(op, arg, settled, reply) ==
    adminLog' = Append(adminLog,
                       [op |-> op, arg |-> arg, settled |-> settled, reply |-> reply])

\* The create call awaited bare: its rejection leaves the function as a throw.
CreateProductRejectedThrows(productData) ==
    /\ Logged("createProduct", productData, "rejected", Thrown("stripe.products.create"))
    /\ UNCHANGED gatewayProducts

\* Lines 37-43: the settled result is a rejection.
CreateProductRejected(productData) ==
    /\ Logged("createProduct", productData, "rejected",
              Returns([success |-> FALSE,
                       message |-> "Failed to create product",
                       productId |-> ""]))
    /\ UNCHANGED gatewayProducts

\* Lines 45-49: the gateway made the product.  It takes a whole amount only.
CreateProductFulfilled(productData) ==
    LET req == CreateProductRequest(productData)
        product == NewProduct(gatewayProducts, req)
    IN  /\ DoubleIsInt(req.default_price_data.unit_amount)
        /\ gatewayProducts' = Append(gatewayProducts, product)
        /\ Logged("createProduct", productData, "fulfilled",
                  Returns([success |-> TRUE,
                           message |-> "Product created successfully",
                           productId |-> product.id]))

\* Lines 24-50.
CreateProduct ==
    /\ Len(adminLog) < MaxAdminCalls
    /\ \E productData \in ProductInputs :
            CreateProductRejected(productData) \/ CreateProductFulfilled(productData)
    /\ UNCHANGED <<sessions, tickets, orders, client, page, locals, pc, result, calls>>

\* Lines 59-64.
ArchiveRejected(stripeId) ==
    /\ Logged("archiveProduct", stripeId, "rejected",
              Returns([success |-> FALSE, message |-> "Failed to archive product"]))
    /\ UNCHANGED gatewayProducts

\* An archive that deletes the product at the gateway.
ArchiveDeletes(stripeId) ==
    /\ \E i \in DOMAIN gatewayProducts : gatewayProducts[i].id = stripeId
    /\ gatewayProducts' = SelectSeq(gatewayProducts, LAMBDA sp : sp.id # stripeId)
    /\ Logged("archiveProduct", stripeId, "fulfilled",
              Returns([success |-> TRUE, message |-> "Product archived successfully"]))

\* Lines 53-57 and 66-69: the gateway updated the product it holds.
ArchiveFulfilled(stripeId) ==
    /\ \E i \in DOMAIN gatewayProducts : gatewayProducts[i].id = stripeId
    /\ gatewayProducts' = UpdateActive(gatewayProducts, stripeId, FALSE)
    /\ Logged("archiveProduct", stripeId, "fulfilled",
              Returns([success |-> TRUE, message |-> "Product archived successfully"]))

\* Lines 52-70.
ArchiveProduct ==
    /\ Len(adminLog) < MaxAdminCalls
    /\ \E stripeId \in AdminIds : ArchiveRejected(stripeId) \/ ArchiveFulfilled(stripeId)
    /\ UNCHANGED <<sessions, tickets, orders, client, page, locals, pc, result, calls>>

\* Lines 79-84.
RestoreRejected(stripeId) ==
    /\ Logged("restoreProduct", stripeId, "rejected",
              Returns([success |-> FALSE, message |-> "Failed to restore product"]))
    /\ UNCHANGED gatewayProducts

\* Lines 73-77 and 86-89: the gateway updated the product it holds.
RestoreFulfilled(stripeId) ==
    /\ \E i \in DOMAIN gatewayProducts : gatewayProducts[i].id = stripeId
    /\ gatewayProducts' = UpdateActive(gatewayProducts, stripeId, TRUE)
    /\ Logged("restoreProduct", stripeId, "fulfilled",
              Returns([success |-> TRUE, message |-> "Product restored successfully"]))

\* Lines 72-90.
RestoreProduct ==
    /\ Len(adminLog) < MaxAdminCalls
    /\ \E stripeId \in AdminIds : RestoreRejected(stripeId) \/ RestoreFulfilled(stripeId)
    /\ UNCHANGED <<sessions, tickets, orders, client, page, locals, pc, result, calls>>

\* No checkout runs; an admin calls the three functions in any order.
InitGateway ==
    /\ pc = [p \in Procs |-> "off"]
    /\ InitRest

NextGateway == CreateProduct \/ ArchiveProduct \/ RestoreProduct

SpecGateway == InitGateway /\ [][NextGateway]_vars

\* ------------------------------------------------- the browser's getStripe
\* How a promise of loadStripe may settle: with Stripe, with null, rejected.
LoadOutcomes == {"stripe", "null", "rejected"}

\* getStripe that loads again when the cached promise was rejected.
GetStripeRetriesFailed(r) ==
    /\ Len(getReturns[r]) < MaxGetCalls
    /\ IF stripePromise[r] = <<>> \/ promises[r][stripePromise[r][1]] = "rejected"
       THEN /\ promises' = [promises EXCEPT ![r] = Append(@, "pending")]
            /\ stripePromise' = [stripePromise EXCEPT ![r] = <<Len(promises[r]) + 1>>]
            /\ getReturns' = [getReturns EXCEPT ![r] =
                    Append(@, [promise |-> Len(promises[r]) + 1, seen |-> "pending"])]
       ELSE /\ getReturns' = [getReturns EXCEPT ![r] =
                    Append(@, [promise |-> stripePromise[r][1],
                               seen |-> promises[r][stripePromise[r][1]]])]
            /\ UNCHANGED <<stripePromise, promises>>
    /\ UNCHANGED <<gatewayProducts, sessions, tickets, orders, adminLog, page, locals,
                   pc, result, calls>>

\* part_000 lines 5-10: load on the first call, then return the variable.
GetStripe(r) ==
    /\ Len(getReturns[r]) < MaxGetCalls
    /\ IF stripePromise[r] = <<>>
       THEN /\ promises' = [promises EXCEPT ![r] = Append(@, "pending")]
            /\ stripePromise' = [stripePromise EXCEPT ![r] = <<Len(promises[r]) + 1>>]
            /\ getReturns' = [getReturns EXCEPT ![r] =
                    Append(@, [promise |-> Len(promises[r]) + 1, seen |-> "pending"])]
       ELSE /\ getReturns' = [getReturns EXCEPT ![r] =
                    Append(@, [promise |-> stripePromise[r][1],
                               seen |-> promises[r][stripePromise[r][1]]])]
            /\ UNCHANGED <<stripePromise, promises>>
    /\ UNCHANGED <<gatewayProducts, sessions, tickets, orders, adminLog, page, locals,
                   pc, result, calls>>

\* The script load behind a promise of loadStripe ends.
SettleLoad(r) ==
    /\ \E i \in DOMAIN promises[r], outcome \in LoadOutcomes :
        /\ promises[r][i] = "pending"
        /\ promises' = [promises EXCEPT ![r][i] = outcome]
    /\ UNCHANGED <<gatewayProducts, sessions, tickets, orders, adminLog, page, locals,
                   pc, result, calls, stripePromise, getReturns>>

\* No checkout and no admin call runs; pages call getStripe.
InitClient ==
    /\ pc = [p \in Procs |-> "off"]
    /\ InitRest

NextClient == \E r \in Loads : GetStripe(r) \/ SettleLoad(r)

SpecClient == InitClient /\ [][NextClient]_vars

\* ------------------------------------------------ the admin search page
Issued == Len(responses) + Cardinality(fetches)

\* search-page.tsx lines 117-125: getRows up to its await.
IssueGetRows(q) ==
    /\ Issued < MaxFetches
    /\ getRowsDone' = FALSE
    /\ fetches' = fetches \cup {[seq |-> Issued + 1, input |-> GetManyInput(q)]}
    /\ UNCHANGED <<responses, rows, total, showErrorIndicator>>

\* Lines 215-231 and the page links: the URL changes (a new search or take
\* goes back to page 1), getRows is made anew and the effect of lines
\* 144-148 calls it.
ChangeQuery ==
    /\ \E q \in Queries :
        /\ q # query
        /\ \/ q.search # query.search /\ q.take = query.take /\ q.page = 1
           \/ q.take # query.take /\ q.search = query.search /\ q.page = 1
           \/ q.page # query.page /\ q.search = query.search /\ q.take = query.take
        /\ query' = q
        /\ IssueGetRows(q)
    /\ UNCHANGED <<gatewayProducts, sessions, tickets, orders, adminLog, client,
                   locals, pc, result, calls>>

\* Lines 156-183: the modal's parameters leave the URL and getRows is called
\* with the search, page and take of this render.
CloseModal ==
    /\ IssueGetRows(query)
    /\ UNCHANGED query
    /\ UNCHANGED <<gatewayProducts, sessions, tickets, orders, adminLog, client,
                   locals, pc, result, calls>>

\* Lines 127-130 and 139-141: the answer is a failure or the call rejected.
RespondError(f, outcome) ==
    /\ responses' = Append(responses, [seq |-> f.seq, outcome |-> outcome])
    /\ showErrorIndicator' = TRUE
    /\ UNCHANGED <<rows, total, getRowsDone>>

\* Lines 132-138: the answer carries data.
RespondData(f) ==
    /\ responses' = Append(responses, [seq |-> f.seq, outcome |-> "data"])
    /\ getRowsDone' = TRUE
    /\ showErrorIndicator' = FALSE
    /\ rows' = GetManyData(f.input).rows
    /\ total' = GetManyData(f.input).total

\* Lines 121-141: a getManyQuery call is answered and getRows runs on.
Respond ==
    /\ \E f \in fetches :
        /\ fetches' = fetches \ {f}
        /\ \/ RespondData(f)
           \/ \E outcome \in {"failed", "thrown"} : RespondError(f, outcome)
    /\ UNCHANGED query
    /\ UNCHANGED <<gatewayProducts, sessions, tickets, orders, adminLog, client,
                   locals, pc, result, calls>>

\* The page is mounted and its effect has called getRows once.
InitSearch ==
    /\ pc = [p \in Procs |-> "off"]
    /\ InitPage(Queries)
    /\ InitBase

NextSearch == ChangeQuery \/ CloseModal \/ Respond

SpecSearch == InitSearch /\ [][NextSearch]_vars

\* One step of invocation p.
Step(p) ==
    \/ Invoke(p)
    \/ FindAddress(p)
    \/ FindBooks(p)
    \/ ListProducts(p)
    \/ CalcShipping(p)
    \/ CreateSession(p)
    \/ GetUser(p)
    \/ CreateTicket(p)
    \/ CreateOrder(p)

\* Two calls one after the other: an invocation is called once those before
\* it have ended.
InvokeAfter(p) ==
    /\ \A q \in Procs : q < p => pc[q] = "done"
    /\ Invoke(p)

NextSeq ==
    \E p \in Procs :
        \/ InvokeAfter(p)
        \/ FindAddress(p)
        \/ FindBooks(p)
        \/ ListProducts(p)
        \/ CalcShipping(p)
        \/ CreateSession(p)
        \/ GetUser(p)
        \/ CreateTicket(p)
        \/ CreateOrder(p)

SpecSeq == InitPair /\ [][NextSeq]_vars

\* Two calls at once: their steps interleave in any way.
SpecPair == InitPair /\ [][Next]_vars

\* Every external call eventually responds: a call that is awaited settles,
\* and the step that awaits it is then taken.
SpecPairLive == SpecPair /\ \A p \in Procs : WF_vars(Step(p))

\* ------------------------------------------------------------- vocabulary
HasCall(p, name, ok) ==
    \E i \in DOMAIN calls[p] : calls[p][i] = [name |-> name, ok |-> ok]
Tried(p, name) == \E i \in DOMAIN calls[p] : calls[p][i].name = name
SessionsOf(p) == {s \in sessions : s.invocation = p}
TicketsOf(p) == {t \in tickets : t.invocation = p}
OrdersOf(p) == {o \in orders : o.invocation = p}
Returned(p) == result[p].kind = "return"
Succeeded(p) == Returned(p) /\ result[p].success
Failed(p) == Returned(p) /\ ~result[p].success
Threw(p) == result[p].kind = "throw"
CatalogIds == {b.stripeId : b \in BookTable}
RequestedIds(p) == {inputProducts[p][i].stripeId : i \in DOMAIN inputProducts[p]}
UnknownIds(p) == RequestedIds(p) \ CatalogIds
SeqRange(f) == {f[i] : i \in DOMAIN f}

\* C1: when the gateway's product-list call fails, the invocation returns a
\* structured failure and has issued no rate request, created no session,
\* booked no ticket and written no order.
C1_ListFailureExitsEarly ==
    \A p \in Procs :
        HasCall(p, "stripe.products.list", FALSE) =>
            /\ Failed(p)
            /\ pc[p] = "done"
            /\ rateReq[p] = <<>>
            /\ ~Tried(p, "calcShippingFee")
            /\ ~Tried(p, "stripe.checkout.sessions.create")
            /\ ~Tried(p, "createShippingTicket")
            /\ ~Tried(p, "db.order.create")
            /\ SessionsOf(p) = {} /\ TicketsOf(p) = {} /\ OrdersOf(p) = {}

C1_Witness ==
    \E p \in Procs :
        /\ HasCall(p, "stripe.products.list", FALSE)
        /\ listReq[p] # <<>> /\ listReq[p][1].ids # <<>>
        /\ pc[p] = "done"
\* C2: when the rate engine answers with no quote, the invocation creates no
\* checkout session, books no ticket and writes no order.
C2_NoQuoteNoSession ==
    \A p \in Procs :
        (HasCall(p, "calcShippingFee", TRUE) /\ arr[p] = <<>>) =>
            /\ ~Tried(p, "stripe.checkout.sessions.create")
            /\ ~Tried(p, "createShippingTicket")
            /\ ~Tried(p, "db.order.create")
            /\ SessionsOf(p) = {} /\ TicketsOf(p) = {} /\ OrdersOf(p) = {}

C2_Witness ==
    \E p \in Procs :
        /\ HasCall(p, "calcShippingFee", TRUE)
        /\ arr[p] = <<>>
        /\ stripeData[p] # <<>>
        /\ pc[p] = "done"

\* The place of each external call in the flow.
CallOrder ==
    << "db.address.findUnique", "db.book.findMany", "stripe.products.list",
       "calcShippingFee", "stripe.checkout.sessions.create", "users.getUser",
       "createShippingTicket", "db.order.create" >>
CallRank(name) == CHOOSE i \in DOMAIN CallOrder : CallOrder[i] = name

\* C3: the side effects of an invocation come in a fixed order: a session is
\* created only once a quote is chosen, a ticket is booked only once the
\* session exists, an order is written only once session and ticket exist,
\* and the calls are made in the order product list, rate quote, session,
\* ticket, order.
C3_SideEffectOrder ==
    \A p \in Procs :
        /\ \A i, j \in DOMAIN calls[p] :
              i < j => /\ CallRank(calls[p][i].name) < CallRank(calls[p][j].name)
                       /\ calls[p][i].ok
        /\ Tried(p, "stripe.checkout.sessions.create") =>
              /\ HasCall(p, "stripe.products.list", TRUE)
              /\ HasCall(p, "calcShippingFee", TRUE)
              /\ shipping[p] # <<>>
        /\ SessionsOf(p) # {} => shipping[p] # <<>>
        /\ Tried(p, "createShippingTicket") =>
              HasCall(p, "stripe.checkout.sessions.create", TRUE)
        /\ TicketsOf(p) # {} => SessionsOf(p) # {}
        /\ Tried(p, "db.order.create") =>
              /\ HasCall(p, "stripe.checkout.sessions.create", TRUE)
              /\ HasCall(p, "createShippingTicket", TRUE)
        /\ OrdersOf(p) # {} => SessionsOf(p) # {} /\ TicketsOf(p) # {}

C3_Witness ==
    \E p \in Procs :
        /\ OrdersOf(p) # {} /\ TicketsOf(p) # {} /\ SessionsOf(p) # {}
        /\ Len(calls[p]) = Len(CallOrder)

\* C4: an id of the request that no book of the catalog carries is left out
\* of the ids and line items sent to the gateway and of the order's line
\* items, and never makes the invocation fault on a missing record.
C4_UnknownIdsDropped ==
    \A p \in Procs :
        /\ \A i \in DOMAIN listReq[p] : SeqRange(listReq[p][i].ids) \cap UnknownIds(p) = {}
        /\ \A i \in DOMAIN stripeData[p] : stripeData[p][i].id \notin UnknownIds(p)
        /\ \A s \in SessionsOf(p) :
              /\ Len(s.line_items) = Len(stripeData[p])
              /\ \A i \in DOMAIN s.line_items :
                    \E b \in BookTable, j \in DOMAIN gatewayProducts :
                        /\ b.stripeId \in RequestedIds(p)
                        /\ gatewayProducts[j].id = b.stripeId
                        /\ s.line_items[i].price = gatewayProducts[j].default_price
        /\ \A o \in OrdersOf(p) :
              /\ Len(o.data.BookOnOrder) =
                    Cardinality({i \in DOMAIN inputProducts[p] :
                                    inputProducts[p][i].stripeId \in CatalogIds})
              /\ \A i \in DOMAIN o.data.BookOnOrder :
                    \E b \in BookTable :
                        /\ b.id = o.data.BookOnOrder[i].bookId
                        /\ b.stripeId \in RequestedIds(p) \ UnknownIds(p)
        /\ result[p] # Thrown("TypeError")

C4_Witness ==
    \E p \in Procs :
        /\ UnknownIds(p) # {}
        /\ RequestedIds(p) \cap CatalogIds # {}
        /\ Succeeded(p)
        /\ \E o \in OrdersOf(p) : Len(o.data.BookOnOrder) = 1
        /\ \E s \in SessionsOf(p) : Len(s.line_items) = 1

\* C5: the order written by a successful run carries the price and the
\* delivery range of the chosen quote, the one the session's shipping option
\* was made of.
C5_OrderMatchesQuote ==
    \A p \in Procs :
        Succeeded(p) =>
            /\ OrdersOf(p) # {}
            /\ \A o \in OrdersOf(p) :
                  /\ o.data.shipping.shippingPrice = shipping[p][1].price
                  /\ o.data.shipping.shippingDaysMin = shipping[p][1].delivery_range.min
                  /\ o.data.shipping.shippingDaysMax = shipping[p][1].delivery_range.max
                  /\ \E s \in SessionsOf(p) :
                        /\ s.id = o.data.sessionId
                        /\ Len(s.shipping_options) = 1
                        /\ s.shipping_options[1].metadata.serviceId = shipping[p][1].id
                        /\ s.shipping_options[1].delivery_estimate.minimum =
                              o.data.shipping.shippingDaysMin
                        /\ s.shipping_options[1].delivery_estimate.maximum =
                              o.data.shipping.shippingDaysMax

C5_Witness ==
    \E p \in Procs :
        /\ Succeeded(p)
        /\ Len(arr[p]) > 1
        /\ \E o \in OrdersOf(p) :
              o.data.shipping.shippingDaysMin < o.data.shipping.shippingDaysMax
\* C6: no failure of an external call reaches the caller as an uncaught
\* fault: the only fault an invocation ends with is the one raised when the
\* rate engine offers no quote.
C6_OnlyNoShippingThrows ==
    \A p \in Procs :
        Threw(p) => result[p] = Thrown("Not able to fetch shipping prices.")

\* C7: the chosen quote has the smallest delivery_range.max of the quotes the
\* engine returned, and among those with that smallest maximum it is the
\* first of the returned list.
C7_FastestQuoteFirstOnTie ==
    \A p \in Procs :
        arr[p] # <<>> =>
            /\ Len(shipping[p]) = 1
            /\ \A i \in DOMAIN arr[p] :
                  shipping[p][1].delivery_range.max <= arr[p][i].delivery_range.max
            /\ \E i \in DOMAIN arr[p] :
                  /\ arr[p][i] = shipping[p][1]
                  /\ \A j \in 1..(i - 1) :
                        arr[p][j].delivery_range.max > shipping[p][1].delivery_range.max

C7_Witness ==
    \E p \in Procs :
        /\ Len(arr[p]) >= 2
        /\ arr[p][1] # arr[p][2]
        /\ arr[p][1].delivery_range.max = arr[p][2].delivery_range.max
        /\ shipping[p] = <<arr[p][1]>>
        /\ SessionsOf(p) # {}

\* C8: the shipping amount of a session is the chosen quote's price in minor
\* units rounded up: with the price in thousandths, ten times the amount is
\* not below the price and exceeds it by less than ten.
C8_AmountIsCeiling ==
    \A s \in sessions :
        LET price  == shipping[s.invocation][1].price
            amount == s.shipping_options[1].fixed_amount.amount
        IN  /\ 10 * amount >= price
            /\ 10 * amount - price < 10

\* The last line of the request that asks for an id.
LastLine(p, id) ==
    LET at == {i \in DOMAIN inputProducts[p] : inputProducts[p][i].stripeId = id}
    IN  inputProducts[p][CHOOSE i \in at : \A j \in at : j <= i]

\* C9: every line item of a session carries the default price reference of a
\* gateway product, never a price of the catalog or of the client, and a
\* defined quantity, the one the quantity map holds for that product: that
\* of the last line of the request asking for it.
C9_LineItemsUseGatewayPrice ==
    \A s \in sessions :
        LET p == s.invocation
        IN  /\ Len(s.line_items) = Len(stripeData[p])
            /\ \A i \in DOMAIN s.line_items :
                  /\ DOMAIN s.line_items[i] = {"price", "quantity"}
                  /\ \E j \in DOMAIN gatewayProducts :
                        /\ gatewayProducts[j].id = stripeData[p][i].id
                        /\ s.line_items[i].price = gatewayProducts[j].default_price
                  /\ stripeData[p][i].id \in RequestedIds(p)
                  /\ s.line_items[i].quantity = LastLine(p, stripeData[p][i].id).quantity

C9_Witness ==
    \E s \in sessions :
        /\ Len(s.line_items) >= 1
        /\ Len(inputProducts[s.invocation]) >= 2
        /\ inputProducts[s.invocation][1].stripeId = inputProducts[s.invocation][2].stripeId
        /\ inputProducts[s.invocation][1].quantity # inputProducts[s.invocation][2].quantity

\* C10: success is returned only once the invocation has written an order
\* for the session whose url it returns; short of that no order of the
\* invocation exists.
C10_SuccessIffOrder ==
    \A p \in Procs :
        /\ Succeeded(p) =>
              \E o \in OrdersOf(p), s \in SessionsOf(p) :
                  /\ o.data.sessionId = s.id
                  /\ s.url = result[p].url
        /\ ~Succeeded(p) => OrdersOf(p) = {}

C10_Witness ==
    \E p \in Procs : Succeeded(p) /\ pc[p] = "done" /\ Cardinality(OrdersOf(p)) = 1

\* C11: when the creation of the checkout session fails, the invocation
\* returns a structured failure and nothing is persisted: no ticket is booked
\* and no order is written.
C11_SessionFailurePersistsNothing ==
    \A p \in Procs :
        HasCall(p, "stripe.checkout.sessions.create", FALSE) =>
            /\ Failed(p)
            /\ pc[p] = "done"
            /\ session[p] = <<>> /\ SessionsOf(p) = {}
            /\ ~Tried(p, "users.getUser")
            /\ ~Tried(p, "createShippingTicket")
            /\ ~Tried(p, "db.order.create")
            /\ TicketsOf(p) = {} /\ OrdersOf(p) = {}

C11_Witness ==
    \E p \in Procs :
        /\ HasCall(p, "stripe.checkout.sessions.create", FALSE)
        /\ stripeData[p] # <<>>
        /\ shipping[p] # <<>>
        /\ pc[p] = "done"

\* C12: a checkout session, once created, is never taken back: it still
\* exists at the gateway whatever happens afterwards, and an invocation that
\* faults after creating it ends on the failed call, with no ticket or no
\* order for the session and no further call made.
C12_SessionNeverRolledBack ==
    \A p \in Procs :
        HasCall(p, "stripe.checkout.sessions.create", TRUE) =>
            /\ Len(session[p]) = 1
            /\ session[p][1] \in sessions
            /\ (pc[p] = "done" /\ ~Succeeded(p)) =>
                  /\ Threw(p)
                  /\ ~calls[p][Len(calls[p])].ok
                  /\ calls[p][Len(calls[p])].name \in
                        {"users.getUser", "createShippingTicket", "db.order.create"}
                  /\ OrdersOf(p) = {}
                  /\ (TicketsOf(p) = {} \/ calls[p][Len(calls[p])].name = "db.order.create")

C12_Witness ==
    \E p \in Procs :
        /\ HasCall(p, "createShippingTicket", FALSE)
        /\ pc[p] = "done"
        /\ session[p] # <<>> /\ session[p][1] \in sessions
        /\ TicketsOf(p) = {} /\ OrdersOf(p) = {}

\* C13: when no id of the request resolves to a book of the catalog (an empty
\* cart included), the invocation fails with a structured result and issues
\* no product-list call, no rate request, no session creation, no ticket and
\* no order.
C13_CatalogMismatchStops ==
    \A p \in Procs :
        (HasCall(p, "db.book.findMany", TRUE) /\ productsOf(p) = <<>>) =>
            /\ listReq[p] = <<>>
            /\ ~Tried(p, "stripe.products.list")
            /\ ~Tried(p, "calcShippingFee")
            /\ ~Tried(p, "stripe.checkout.sessions.create")
            /\ SessionsOf(p) = {} /\ TicketsOf(p) = {} /\ OrdersOf(p) = {}
            /\ pc[p] = "done" => Failed(p)

\* C14: within an invocation every external call is issued at most once,
\* whatever its outcome: a failed call is the last one made, and a
\* successful run creates exactly one session, one ticket and one order.
C14_EachCallAtMostOnce ==
    \A p \in Procs :
        /\ \A i, j \in DOMAIN calls[p] : calls[p][i].name = calls[p][j].name => i = j
        /\ \A i \in DOMAIN calls[p] : ~calls[p][i].ok => i = Len(calls[p])
        /\ Len(listReq[p]) <= 1 /\ Len(rateReq[p]) <= 1
        /\ Cardinality(SessionsOf(p)) <= 1
        /\ Cardinality(TicketsOf(p)) <= 1
        /\ Cardinality(OrdersOf(p)) <= 1
        /\ Succeeded(p) =>
              /\ Cardinality(SessionsOf(p)) = 1
              /\ Cardinality(TicketsOf(p)) = 1
              /\ Cardinality(OrdersOf(p)) = 1
              /\ Len(listReq[p]) = 1 /\ Len(rateReq[p]) = 1

C14_Witness ==
    \E p \in Procs :
        /\ Succeeded(p)
        /\ Len(calls[p]) = Len(CallOrder)
        /\ Cardinality(sessions) = 1 /\ Cardinality(tickets) = 1 /\ Cardinality(orders) = 1

\* C15: two successful calls one after the other, by the same user with the
\* same cart, create two distinct sessions, two tickets and two distinct
\* orders: the second call makes every call of the flow again and reuses
\* nothing of the first.
C15_NotIdempotent ==
    \A p, q \in Procs :
        (/\ p # q
         /\ Succeeded(p) /\ Succeeded(q)
         /\ userId[p] = userId[q]
         /\ inputProducts[p] = inputProducts[q]) =>
            /\ session[p][1].id # session[q][1].id
            /\ result[p].url # result[q].url
            /\ ticketId[p] # ticketId[q]
            /\ Cardinality(sessions) = 2
            /\ Cardinality({t.ticket.id : t \in tickets}) = 2
            /\ Cardinality({o.id : o \in orders}) = 2
            /\ Cardinality({o.data.sessionId : o \in orders}) = 2
            /\ Len(calls[p]) = Len(CallOrder) /\ Len(calls[q]) = Len(CallOrder)

C15_Witness ==
    /\ \A p \in Procs : Succeeded(p)
    /\ userId[1] = userId[2]
    /\ inputProducts[1] = inputProducts[2]
    /\ arr[1] = arr[2]
    /\ Cardinality(orders) = 2

\* C16: two calls at once by the same user do not exclude each other: in
\* every reachable state each call that has not ended can take its next
\* step, whatever the other call is doing; a call that ended without success
\* ended on an answer to its own last call (a rejection, or a rate answer
\* without quotes), never on the other call; and when both have succeeded
\* that user has two sessions and two orders.
C16_NotMutuallyExcluded ==
    /\ \A p \in Procs : pc[p] # "done" => ENABLED Step(p)
    /\ \A p \in Procs :
        (pc[p] = "done" /\ ~Succeeded(p)) =>
            /\ calls[p] # <<>>
            /\ \/ ~calls[p][Len(calls[p])].ok
               \/ /\ calls[p][Len(calls[p])].name = "calcShippingFee"
                  /\ arr[p] = <<>>
    /\ (\A p \in Procs : Succeeded(p)) =>
            /\ Cardinality(sessions) = Cardinality(Procs)
            /\ Cardinality(orders) = Cardinality(Procs)
            /\ \A p \in Procs :
                /\ Cardinality(SessionsOf(p)) = 1
                /\ Cardinality(OrdersOf(p)) = 1
                /\ \A o \in OrdersOf(p) :
                    /\ o.data.userId = userId[p]
                    /\ o.data.sessionId = session[p][1].id

\* Both calls succeeded for one user, their steps interleaved: the first call
\* got the first session and the second order.
C16_Witness ==
    /\ \A p \in Procs : Succeeded(p)
    /\ userId[1] = userId[2]
    /\ session[1][1].id = 1
    /\ \E o \in OrdersOf(1) : o.id = 2
    /\ Cardinality(sessions) = 2
    /\ Cardinality(orders) = 2

\* C17: a call without an authenticated user id returns a structured failure
\* and has read nothing and changed nothing: no address or catalog read, no
\* gateway call, no rate request, no session, no ticket, no order.
C17_UnauthorizedDoesNothing ==
    \A p \in Procs :
        (pc[p] \notin {"off", "idle"} /\ userId[p] = "") =>
            /\ pc[p] = "done"
            /\ Failed(p)
            /\ calls[p] = <<>>
            /\ books[p] = {}
            /\ listReq[p] = <<>>
            /\ rateReq[p] = <<>>
            /\ SessionsOf(p) = {}
            /\ TicketsOf(p) = {}
            /\ OrdersOf(p) = {}

C17_Witness ==
    \E p \in Procs :
        /\ pc[p] = "done"
        /\ userId[p] = ""
        /\ inputProducts[p] # <<>>
        /\ result[p] = Failure("User is not authorized.")

\* C18: when the address lookup finds no address for the authenticated user,
\* the call returns a structured failure and has made no call after that
\* lookup: no gateway call, no rate request, no session, no ticket, no order.
C18_NoAddressStops ==
    \A p \in Procs :
        (/\ userId[p] # ""
         /\ userAddressOf(p) = {}
         /\ HasCall(p, "db.address.findUnique", TRUE)) =>
            /\ pc[p] = "done"
            /\ Failed(p)
            /\ Len(calls[p]) = 1
            /\ listReq[p] = <<>>
            /\ rateReq[p] = <<>>
            /\ SessionsOf(p) = {}
            /\ TicketsOf(p) = {}
            /\ OrdersOf(p) = {}

C18_Witness ==
    \E p \in Procs :
        /\ userId[p] = "u2"
        /\ userAddressOf(p) = {}
        /\ inputProducts[p] # <<>>
        /\ result[p] = Failure("User has no address.")

\* C19: every line of every order written names a book that the catalog
\* lookup of that call returned, with that book's price; the placeholder id
\* "N/A" is never written, and the order has one line for each requested
\* line whose product is in the catalog.
C19_OrderLinesAreCatalogBooks ==
    \A o \in orders :
        LET lines == o.data.BookOnOrder
            p == o.invocation
        IN  /\ \A i \in DOMAIN lines :
                /\ lines[i].bookId # "N/A"
                /\ \E b \in books[p] : b.id = lines[i].bookId /\ b.price = lines[i].price
                /\ \E b \in BookTable : b.id = lines[i].bookId
            /\ Len(lines) =
                Cardinality({i \in DOMAIN inputProducts[p] :
                                inputProducts[p][i].stripeId \in CatalogIds})

\* An order written for a request that named an unknown product.
C19_Witness ==
    \E o \in orders :
        /\ UnknownIds(o.invocation) # {}
        /\ Len(o.data.BookOnOrder) = 1
        /\ Len(inputProducts[o.invocation]) = 2

\* C20: createProduct, archiveProduct and restoreProduct never raise: every
\* call gave back a value with success and message, success is false exactly
\* when the gateway call was rejected and true exactly when it was fulfilled,
\* and createProduct gives the empty productId on rejection and the id of
\* the product the gateway made on fulfilment.
C20_AdminCallsNeverRaise ==
    \A i \in DOMAIN adminLog :
        LET e == adminLog[i]
        IN  /\ e.reply.kind = "return"
            /\ {"success", "message"} \subseteq DOMAIN e.reply.value
            /\ e.reply.value.success <=> (e.settled = "fulfilled")
            /\ ~e.reply.value.success <=> (e.settled = "rejected")
            /\ e.op = "createProduct" =>
                /\ "productId" \in DOMAIN e.reply.value
                /\ e.settled = "rejected" => e.reply.value.productId = ""
                /\ e.settled = "fulfilled" =>
                    /\ e.reply.value.productId # ""
                    /\ \E j \in DOMAIN gatewayProducts :
                            gatewayProducts[j].id = e.reply.value.productId

\* Each of the three functions was called, with both outcomes seen.
C20_Witness ==
    /\ Len(adminLog) = 3
    /\ adminLog[1].op = "createProduct" /\ adminLog[1].settled = "rejected"
    /\ adminLog[2].op = "archiveProduct" /\ adminLog[2].settled = "fulfilled"
    /\ adminLog[3].op = "restoreProduct" /\ adminLog[3].settled = "rejected"

\* The flag the last fulfilled archive or restore of a product left, TRUE (as
\* the gateway makes products) when there was none, over the first n calls.
RECURSIVE LastFlag(_, _, _)
LastFlag(log, n, id) ==
    IF n = 0 THEN TRUE
    ELSE IF /\ log[n].op \in {"archiveProduct", "restoreProduct"}
            /\ log[n].settled = "fulfilled"
            /\ log[n].arg = id
         THEN log[n].op = "restoreProduct"
         ELSE LastFlag(log, n - 1, id)

\* What every archive or restore call does to the gateway's products.
ArchiveRestoreStep ==
    (/\ Len(adminLog') = Len(adminLog) + 1
     /\ adminLog'[Len(adminLog')].op \in {"archiveProduct", "restoreProduct"}) =>
        LET e    == adminLog'[Len(adminLog')]
            flag == e.op = "restoreProduct"
        IN  /\ Len(gatewayProducts') = Len(gatewayProducts)
            /\ e.settled = "rejected" => gatewayProducts' = gatewayProducts
            /\ e.settled = "fulfilled" =>
                /\ \E i \in DOMAIN gatewayProducts : gatewayProducts[i].id = e.arg
                /\ \A i \in DOMAIN gatewayProducts :
                    /\ gatewayProducts'[i].id = gatewayProducts[i].id
                    /\ gatewayProducts'[i].default_price = gatewayProducts[i].default_price
                    /\ gatewayProducts'[i].unit_amount = gatewayProducts[i].unit_amount
                    /\ gatewayProducts'[i].active =
                            IF gatewayProducts[i].id = e.arg THEN flag
                            ELSE gatewayProducts[i].active
                /\ (\A i \in DOMAIN gatewayProducts :
                        gatewayProducts[i].id = e.arg => gatewayProducts[i].active = flag)
                    => gatewayProducts' = gatewayProducts

\* C21: archiveProduct and restoreProduct only set the product's active flag
\* and never delete it: a fulfilled call leaves every product in place with
\* its id and price, sets the named product's flag (false resp. true) and no
\* other, changes nothing when the flag already had that value, a rejected
\* call changes nothing, and after any calls each product's flag is the one
\* of the last fulfilled call on it.
C21_ArchiveRestoreOnlySetActive ==
    [][/\ ArchiveRestoreStep
       /\ \A i \in DOMAIN gatewayProducts' :
            gatewayProducts'[i].active =
                LastFlag(adminLog', Len(adminLog'), gatewayProducts'[i].id)]_vars

\* Archived twice, then restored: the product is there and active again.
C21_Witness ==
    /\ Len(adminLog) = 3
    /\ adminLog[1].op = "archiveProduct"
    /\ adminLog[2].op = "archiveProduct"
    /\ adminLog[3].op = "restoreProduct"
    /\ \A i \in 1..3 : adminLog[i].settled = "fulfilled" /\ adminLog[i].arg = "prod_A"
    /\ \E i \in DOMAIN gatewayProducts :
            gatewayProducts[i].id = "prod_A" /\ gatewayProducts[i].active

\* C22: every ticket booked is tagged with the id of the session its own
\* invocation created before and with that invocation's user id, and every
\* order written carries that same session id, that same user id and the id
\* of the ticket that invocation booked.
C22_TagAndOrderCorrelate ==
    /\ \A t \in tickets :
        LET p == t.invocation
        IN  /\ session[p] # <<>>
            /\ session[p][1] \in SessionsOf(p)
            /\ t.ticket.tag = << <<"sessionId", session[p][1].id>>,
                                 <<"userId", userId[p]>> >>
    /\ \A o \in orders :
        LET p == o.invocation
        IN  /\ o.data.sessionId = session[p][1].id
            /\ o.data.userId = userId[p]
            /\ \E t \in TicketsOf(p) :
                /\ o.data.ticketId = <<t.ticket.id>>
                /\ t.ticket.tag[1][2] = o.data.sessionId
                /\ t.ticket.tag[2][2] = o.data.userId
            /\ \A q \in Procs \ {p} :
                session[q] # <<>> => o.data.sessionId # session[q][1].id

\* Two interleaved calls both wrote their order; the first call holds the
\* older session and booked the newer ticket.
C22_Witness ==
    /\ Cardinality(orders) = 2
    /\ session[1][1].id = 1
    /\ ticketId[1] = <<2>>
    /\ \E t \in TicketsOf(1) : t.ticket.tag[1][2] = 1

\* C23: every session created carries exactly one shipping option, built
\* from the quote the invocation chose (its id, name, delivery range and the
\* amount computed from its price); that quote has the smallest maximum
\* delivery time of the answer, and no other quote of the answer is offered.
C23_OneShippingOption ==
    \A s \in sessions :
        LET p == s.invocation
            q == shipping[p][1]
        IN  /\ Len(s.shipping_options) = 1
            /\ \E i \in DOMAIN arr[p] : arr[p][i] = q
            /\ \A i \in DOMAIN arr[p] : q.delivery_range.max <= arr[p][i].delivery_range.max
            /\ s.shipping_options[1].type = "fixed_amount"
            /\ s.shipping_options[1].metadata.serviceId = q.id
            /\ s.shipping_options[1].display_name = q.name
            /\ s.shipping_options[1].delivery_estimate.minimum = q.delivery_range.min
            /\ s.shipping_options[1].delivery_estimate.maximum = q.delivery_range.max
            /\ s.shipping_options[1].fixed_amount.amount =
                    MathCeil(MulDouble100(ToDouble(q.price)))
            /\ s.amount_total >= s.shipping_options[1].fixed_amount.amount

\* A session made after the engine answered with two different quotes.
C23_Witness ==
    \E s \in sessions :
        /\ Len(arr[s.invocation]) = 2
        /\ arr[s.invocation][1].id # arr[s.invocation][2].id
        /\ Len(s.shipping_options) = 1
        /\ s.shipping_options[1].metadata.serviceId = arr[s.invocation][2].id

\* C24: the product-list call is issued with a limit at least as large as
\* the number of distinct ids it asks for, each id asked once, so a fulfilled
\* list holds every product of the gateway whose id was asked for, and every
\* one of them is in the session's line items.
C24_LimitCoversIds ==
    \A p \in Procs :
        /\ \A k \in DOMAIN listReq[p] :
            LET req == listReq[p][k]
            IN  /\ req.limit >= Cardinality(SeqRange(req.ids))
                /\ Cardinality(SeqRange(req.ids)) = Len(req.ids)
                /\ req.limit = Len(SelectSeq(inputProducts[p],
                                             LAMBDA x : x.stripeId \in CatalogIds))
        /\ HasCall(p, "stripe.products.list", TRUE) =>
            \A j \in DOMAIN gatewayProducts :
                (\E i \in DOMAIN listReq[p][1].ids :
                        listReq[p][1].ids[i] = gatewayProducts[j].id) =>
                    /\ \E i \in DOMAIN stripeData[p] : stripeData[p][i] = gatewayProducts[j]
                    /\ \A s \in SessionsOf(p) :
                        \E i \in DOMAIN s.line_items :
                            s.line_items[i].price = gatewayProducts[j].default_price

\* Two different products asked for and both listed and charged.
C24_Witness ==
    \E p \in Procs :
        /\ listReq[p] # <<>>
        /\ Len(listReq[p][1].ids) = 2
        /\ Len(stripeData[p]) = 2
        /\ \E s \in SessionsOf(p) : Len(s.line_items) = 2

\* The products a successful invocation charged, recorded in its order and
\* listed in its ticket, each as the set of their gateway ids.
ChargedIds(p) ==
    {gatewayProducts[j].id : j \in {k \in DOMAIN gatewayProducts :
        \E s \in SessionsOf(p) : \E i \in DOMAIN s.line_items :
            s.line_items[i].price = gatewayProducts[k].default_price}}
OrderedIds(p) ==
    {b.stripeId : b \in {x \in BookTable :
        \E o \in OrdersOf(p) : \E i \in DOMAIN o.data.BookOnOrder :
            o.data.BookOnOrder[i].bookId = x.id}}
ManifestIds(p) ==
    {b.stripeId : b \in {x \in BookTable :
        \E t \in TicketsOf(p) : \E i \in DOMAIN t.ticket.products :
            t.ticket.products[i].bookDBId = x.id}}

\* C25: on every successful run the products charged in the session's line
\* items are exactly the products recorded in the order's lines and in the
\* ticket's manifest.
C25_ChargedEqualsRecorded ==
    \A p \in Procs :
        Succeeded(p) =>
            /\ ChargedIds(p) = OrderedIds(p)
            /\ ChargedIds(p) = ManifestIds(p)

\* C26: on every successful run one shipping service is used in all three
\* systems: the serviceId of the session's shipping option, the service the
\* ticket was booked with and the order's shippingServiceId (as text) are the
\* id of the quote the invocation chose, and the ticket's volume is that
\* quote's first package.
C26_SameServiceEverywhere ==
    \A p \in Procs :
        Succeeded(p) =>
            LET q == shipping[p][1]
            IN  /\ \E i \in DOMAIN arr[p] : arr[p][i] = q
                /\ \A s \in SessionsOf(p) :
                    /\ Len(s.shipping_options) = 1
                    /\ s.shipping_options[1].metadata.serviceId = q.id
                /\ \A t \in TicketsOf(p) :
                    /\ t.ticket.service = q.id
                    /\ t.ticket.volumes.height = q.packages[1].dimensions.height
                    /\ t.ticket.volumes.width = q.packages[1].dimensions.width
                    /\ t.ticket.volumes.length = q.packages[1].dimensions.length
                    /\ t.ticket.volumes.weight = q.packages[1].weight
                /\ \A o \in OrdersOf(p) :
                    /\ o.data.shipping.shippingServiceId = ToString(q.id)
                    /\ o.data.shipping.shippingServiceName = q.name
                /\ SessionsOf(p) # {} /\ TicketsOf(p) # {} /\ OrdersOf(p) # {}

\* A successful run whose chosen quote was not the first of the answer.
C26_Witness ==
    \E p \in Procs :
        /\ Succeeded(p)
        /\ Len(arr[p]) = 2
        /\ shipping[p][1] = arr[p][2]
        /\ arr[p][1].id # arr[p][2].id
        /\ \E t \in TicketsOf(p) : t.ticket.service = arr[p][2].id

\* C27: every product of a fulfilled product list has a book in this
\* invocation's catalog map and a quantity in its quantity map, so the
\* package list of the rate request is built without a missing record and
\* no fault arises between the list and the rate request.
C27_ListedProductsAreKnown ==
    \A p \in Procs :
        HasCall(p, "stripe.products.list", TRUE) =>
            /\ \A i \in DOMAIN stripeData[p] :
                /\ \E b \in books[p] : b.stripeId = stripeData[p][i].id
                /\ \E k \in DOMAIN inputProducts[p] :
                        inputProducts[p][k].stripeId = stripeData[p][i].id
                /\ stripeData[p][i].id \in DOMAIN productQuantityMapOf(p).val
            /\ pc[p] = "rate" => RateDerefs(p)
            /\ ~(Threw(p) /\ result[p].error = "TypeError")
            /\ pc[p] \notin {"list", "rate"} =>
                /\ Tried(p, "calcShippingFee")
                /\ Len(rateReq[p]) = 1
                /\ Len(rateReq[p][1].products) = Len(stripeData[p])

\* The rate request went out with a package for each of two listed products.
C27_Witness ==
    \E p \in Procs :
        /\ Len(stripeData[p]) = 2
        /\ UnknownIds(p) = {}
        /\ Len(rateReq[p]) = 1
        /\ Len(rateReq[p][1].products) = 2

\* C28: when the request names a product more than once, the quantity map
\* holds the quantity of its last occurrence (nothing is summed), the session
\* charges the product once with that quantity, and the ticket manifest and
\* the order have one entry for each occurrence, in request order.
C28_LastQuantityWins ==
    \A p \in Procs :
        LET kept == SelectSeq(inputProducts[p], LAMBDA x : x.stripeId \in CatalogIds)
        IN  /\ HasCall(p, "db.book.findMany", TRUE) =>
                \A id \in DOMAIN productQuantityMapOf(p).val :
                    productQuantityMapOf(p).val[id] = LastLine(p, id).quantity
            /\ \A s \in SessionsOf(p) :
                /\ \A i, j \in DOMAIN s.line_items :
                        s.line_items[i].price = s.line_items[j].price => i = j
                /\ \A i \in DOMAIN s.line_items :
                        s.line_items[i].quantity = LastLine(p, stripeData[p][i].id).quantity
            /\ \A t \in TicketsOf(p) :
                /\ Len(t.ticket.products) = Len(kept)
                /\ \A i \in DOMAIN kept :
                    /\ t.ticket.products[i].quantity = kept[i].quantity
                    /\ \E b \in BookTable :
                        /\ b.stripeId = kept[i].stripeId
                        /\ b.id = t.ticket.products[i].bookDBId
            /\ \A o \in OrdersOf(p) :
                /\ Len(o.data.BookOnOrder) = Len(kept)
                /\ \A i \in DOMAIN kept :
                    \E b \in BookTable :
                        /\ b.stripeId = kept[i].stripeId
                        /\ b.id = o.data.BookOnOrder[i].bookId

\* prod_A asked for twice, 1 then 2: charged once with 2, ordered twice.
C28_Witness ==
    \E p \in Procs :
        /\ Succeeded(p)
        /\ inputProducts[p] = << [stripeId |-> "prod_A", quantity |-> 1],
                                 [stripeId |-> "prod_A", quantity |-> 2] >>
        /\ \E s \in SessionsOf(p) :
                Len(s.line_items) = 1 /\ s.line_items[1].quantity = 2
        /\ \E o \in OrdersOf(p) : Len(o.data.BookOnOrder) = 2
        /\ \E t \in TicketsOf(p) :
                t.ticket.products[1].quantity = 1 /\ t.ticket.products[2].quantity = 2

\* The steps of an invocation in the order of the function's text.
PcOrder == <<"idle", "address", "books", "list", "rate", "session", "user",
             "ticket", "order", "done">>
PcRank(step) == CHOOSE i \in DOMAIN PcOrder : PcOrder[i] = step

\* C29: when every external call eventually responds, every invocation
\* eventually ends (success, structured failure or raised fault); a step is
\* never taken twice and none before it is taken again; and an invocation
\* leaves a step that awaits a call only on that call's answer or on a fault
\* of its own, so without an answer it stays there for ever.
C29_TerminatesWithoutRevisit ==
    /\ \A p \in Procs : <>(pc[p] = "done")
    /\ [][\A p \in Procs :
            /\ (pc'[p] # pc[p] \/ calls'[p] # calls[p]) =>
                    PcRank(pc'[p]) > PcRank(pc[p])
            /\ (pc'[p] # pc[p] /\ pc[p] # "idle") =>
                    \/ Len(calls'[p]) = Len(calls[p]) + 1
                    \/ result'[p] = Thrown("TypeError")
            /\ pc[p] = "done" => /\ pc'[p] = "done"
                                 /\ result'[p] = result[p]
                                 /\ calls'[p] = calls[p]]_vars

\* Both invocations ended, one through all its steps and one on a failure.
C29_Witness ==
    /\ \A p \in Procs : pc[p] = "done"
    /\ Succeeded(1) /\ Len(calls[1]) = Len(CallOrder)
    /\ ~Succeeded(2) /\ Len(calls[2]) < Len(CallOrder)

\* C30: getStripe is a lazily initialised singleton: in a page load,
\* loadStripe is invoked at most once and not before the first getStripe
\* call, every call returns the one promise it made, and the cached promise
\* is never reset or replaced, so after a rejected load later calls return
\* the same rejected promise and nothing loads again.
C30_LazySingleton ==
    [][\A r \in Loads :
        /\ Len(promises'[r]) <= 1
        /\ (getReturns'[r] = <<>>) <=> (promises'[r] = <<>>)
        /\ (getReturns'[r] = <<>>) <=> (stripePromise'[r] = <<>>)
        /\ \A i \in DOMAIN getReturns'[r] :
            /\ getReturns'[r][i].promise = getReturns'[r][1].promise
            /\ stripePromise'[r] = <<getReturns'[r][i].promise>>
        /\ stripePromise[r] # <<>> =>
            /\ stripePromise'[r] = stripePromise[r]
            /\ Len(promises'[r]) = Len(promises[r])
        /\ \A i \in DOMAIN promises[r] :
            promises[r][i] # "pending" => promises'[r][i] = promises[r][i]]_vars

\* The load was rejected after the first call; two later calls got that
\* same rejected promise.
C30_Witness ==
    \E r \in Loads :
        /\ Len(getReturns[r]) = 3
        /\ promises[r] = <<"rejected">>
        /\ getReturns[r][1].seen = "pending"
        /\ getReturns[r][2].seen = "rejected"
        /\ getReturns[r][3] = getReturns[r][2]

\* C31: once every fetch of SearchPage has been answered and the fetch
\* issued last was answered with data, the rows and the total displayed are
\* those of that last query: a late answer to an older fetch has not
\* overwritten them.
C31_LatestQueryShown ==
    (/\ fetches = {}
     /\ \E i \in DOMAIN responses :
            responses[i].seq = Issued /\ responses[i].outcome = "data") =>
        /\ rows = GetManyData(GetManyInput(query)).rows
        /\ total = GetManyData(GetManyInput(query)).total
====
